---- MODULE Spec2Model ----
(***************************************************************************)
(* Model of the ExcelInsights analysis engine (src/excel_insights.py).     *)
(*                                                                         *)
(* Representation                                                          *)
(*   - an optional value (None or a value) is a sequence of length 0 or 1; *)
(*   - a cell is an optional value: <<>> is the null marker (NaN / NaT),   *)
(*     <<v>> a value; numeric cells hold integers, for which the float64   *)
(*     arithmetic of pandas is exact;                                      *)
(*   - a number computed by a pass is an exact rational or NaN / inf,      *)
(*     [nan, num, den]; a standard deviation is kept as its square and a   *)
(*     Pearson coefficient as its sign and its square, so that every       *)
(*     comparison the code makes is decided exactly;                       *)
(*   - a column name is the sequence of its parts: the name "a - b" is     *)
(*     <<"a", "b">>, a name without " - " is <<"a">>;                      *)
(*   - a table (DataFrame) is a sequence of columns of equal length;       *)
(*   - a dict is a function; {} is the empty function <<>>.                *)
(***************************************************************************)
EXTENDS Integers, Sequences, FiniteSets, TLC

VARIABLES
    file_path,  \* self.file_path : optional path
    data,       \* self.data      : optional table (the default table)
    sheets,     \* self.sheets    : dict sheet name -> table
    insights,   \* self.insights  : dict pass kind -> dict sheet key -> record
    op,         \* the call made last: its name and its arguments
    ret,        \* what that call returned
    exc,        \* "None", or the exception that call propagated
    ran,        \* history: kind -> sheet key -> result of the latest run on a table
    loads,      \* number of load_excel calls made
    calls,      \* number of pass calls made
    caught,     \* "None", or the exception that call caught and printed
    ties,       \* how this build's sort orders equal counts; "unset" until seen
    again,      \* history: the call made last repeated the call before it
    threads     \* the pass invocations running concurrently, by thread

vars == <<file_path, data, sheets, insights, op, ret, exc, ran, loads, calls,
          caught, ties, again, threads>>

----------------------------------------------------------------------------
(* Optional values and Python truthiness *)

None == <<>>
Some(x) == <<x>>

\* `if sheet_name` / `if file_path`: None and the empty string are falsy
Truthy(a) == a # None /\ a[1] # ""

Empty == <<>>

----------------------------------------------------------------------------
(* Exact arithmetic on the numbers the passes compute *)

Abs(x) == IF x < 0 THEN -x ELSE x

RECURSIVE GCD(_, _)
GCD(a, b) == IF b = 0 THEN a ELSE GCD(b, a % b)

NaN == [nan |-> TRUE, num |-> 0, den |-> 1]
PosInf == [nan |-> FALSE, num |-> 1, den |-> 0]
NegInf == [nan |-> FALSE, num |-> -1, den |-> 0]

\* n / d in lowest terms, d # 0
Rat(n, d) ==
    LET g == GCD(Abs(n), Abs(d))
        s == IF d < 0 THEN -1 ELSE 1
    IN  [nan |-> FALSE, num |-> (s * n) \div g, den |-> (s * d) \div g]

Num(v) == Rat(v, 1)

RAdd(a, b) ==
    IF a.nan \/ b.nan THEN NaN
    ELSE IF a.den = 0 /\ b.den = 0 THEN (IF a.num = b.num THEN a ELSE NaN)
    ELSE IF a.den = 0 THEN a
    ELSE IF b.den = 0 THEN b
    ELSE Rat(a.num * b.den + b.num * a.den, a.den * b.den)

RNeg(a) == IF a.nan THEN NaN ELSE [nan |-> FALSE, num |-> -a.num, den |-> a.den]

RSub(a, b) == RAdd(a, RNeg(b))

Sign(x) == IF x < 0 THEN -1 ELSE IF x > 0 THEN 1 ELSE 0

RMul(a, b) ==
    IF a.nan \/ b.nan THEN NaN
    ELSE IF a.den = 0 \/ b.den = 0
         THEN (IF a.num = 0 \/ b.num = 0 THEN NaN
               ELSE IF Sign(a.num) * Sign(b.num) > 0 THEN PosInf ELSE NegInf)
    ELSE Rat(a.num * b.num, a.den * b.den)

\* float division (numpy): x / 0 is inf or nan, never an exception
RDiv(a, b) ==
    IF a.nan \/ b.nan THEN NaN
    ELSE IF b.den = 0 THEN (IF a.den = 0 THEN NaN ELSE Num(0))
    ELSE IF b.num = 0
         THEN (IF a.num = 0 THEN NaN ELSE IF a.num > 0 THEN PosInf ELSE NegInf)
    ELSE IF a.den = 0 THEN (IF Sign(a.num) * Sign(b.num) > 0 THEN PosInf ELSE NegInf)
    ELSE Rat(a.num * b.den, a.den * b.num)

\* comparisons: every comparison with NaN is False
RLt(a, b) ==
    /\ ~a.nan
    /\ ~b.nan
    /\ IF a.den = 0 /\ b.den = 0 THEN a.num < b.num
       ELSE a.num * b.den < b.num * a.den
RGt(a, b) == RLt(b, a)
REq(a, b) == ~a.nan /\ ~b.nan /\ a = b
RLe(a, b) == RLt(a, b) \/ REq(a, b)
RGe(a, b) == RLe(b, a)

\* int / int of Python: the quotient, or ZeroDivisionError
PyDivRaises(b) == b = 0
PyDiv(a, b) == IF b = 0 THEN NaN ELSE Rat(a, b)

RECURSIVE SumSeq(_)
SumSeq(s) == IF s = <<>> THEN 0 ELSE Head(s) + SumSeq(Tail(s))

----------------------------------------------------------------------------
(* Tables *)

Col(name, dtype, cells) == [name |-> name, dtype |-> dtype, cells |-> cells]

\* len(data): the row count
NRows(t) == IF Len(t) = 0 THEN 0 ELSE Len(t[1].cells)

\* Series.dropna(): the non-null values, in row order
NotNull(c) == c # <<>>
DropNa(cells) ==
    LET kept == SelectSeq(cells, NotNull)
    IN  [i \in 1..Len(kept) |-> kept[i][1]]

\* data.select_dtypes(include=[np.number]).columns.tolist()
IsNumber(c) == c.dtype \in {"int64", "float64"}
NumericalCols(t) == SelectSeq(t, IsNumber)

\* data.select_dtypes(include=["object", "string", "category"]).columns.tolist()
IsCategorical(c) == c.dtype \in {"object", "string", "category"}
CategoricalCols(t) == SelectSeq(t, IsCategorical)

Names(cols) == {cols[i].name : i \in 1..Len(cols)}
NameSeq(cols) == [i \in 1..Len(cols) |-> cols[i].name]

\* data[col]: the column of that name (column names of a DataFrame read from
\* a sheet are distinct)
ColByName(cols, c) == cols[CHOOSE i \in 1..Len(cols) : cols[i].name = c]

----------------------------------------------------------------------------
(* Column statistics *)

\* the quantile with 'midpoint' interpolation: the mean of the two order
\* statistics around the position
QuantileMidpoint(vals, qn, qd) ==
    LET n == Len(vals)
        s == SortSeq(vals, <)
        h == (n - 1) * qn
        lo == h \div qd
        r == h % qd
    IN  IF n = 0 THEN NaN
        ELSE IF r = 0 THEN Num(s[lo + 1])
        ELSE Rat(s[lo + 1] + s[lo + 2], 2)

\* Series.quantile(q) with q = qn / qd, linear interpolation between the two
\* order statistics around position (n - 1) * q; NaN for an empty series
Quantile(vals, qn, qd) ==
    LET n == Len(vals)
        s == SortSeq(vals, <)
        h == (n - 1) * qn
        lo == h \div qd
        r == h % qd
    IN  IF n = 0 THEN NaN
        ELSE IF r = 0 THEN Num(s[lo + 1])
        ELSE Rat(s[lo + 1] * qd + (s[lo + 2] - s[lo + 1]) * r, qd)

\* Series.mean(): NaN for an empty series
Mean(vals) == IF Len(vals) = 0 THEN NaN ELSE Rat(SumSeq(vals), Len(vals))

\* n * sum(v^2) - sum(v)^2 = n * (sum of squared deviations from the mean)
SqDevN(vals) ==
    LET n == Len(vals)
        sq == [i \in 1..n |-> vals[i] * vals[i]]
    IN  n * SumSeq(sq) - SumSeq(vals) * SumSeq(vals)

\* Series.std() squared (ddof = 1): NaN for fewer than two values
Std2(vals) ==
    LET n == Len(vals)
    IN  IF n < 2 THEN NaN ELSE Rat(SqDevN(vals), n * (n - 1))

\* the first value taken for the smallest
SeqMinFirst(vals) == IF Len(vals) = 0 THEN NaN ELSE Num(vals[1])

SeqMin(vals) == IF Len(vals) = 0 THEN NaN ELSE Num(SortSeq(vals, <)[1])
SeqMax(vals) == IF Len(vals) = 0 THEN NaN ELSE Num(SortSeq(vals, <)[Len(vals)])

\* DataFrame.describe() of one numeric column
Describe(cells) ==
    LET v == DropNa(cells)
    IN  [count |-> Len(v), mean |-> Mean(v), std2 |-> Std2(v), min |-> SeqMin(v),
         q25 |-> Quantile(v, 1, 4), q50 |-> Quantile(v, 2, 4),
         q75 |-> Quantile(v, 3, 4), max |-> SeqMax(v)]

----------------------------------------------------------------------------
(* generate_summary_statistics *)

\* the check for numeric columns left out
SummaryNeverEmpty(t) == FALSE

SummaryIsEmpty(t) == Len(NumericalCols(t)) = 0

SummaryResult(t) ==
    LET nc == NumericalCols(t)
    IN  IF SummaryIsEmpty(t) THEN Empty
        ELSE [numerical_columns |-> NameSeq(nc),
              statistics |-> [c \in Names(nc) |->
                  Describe(ColByName(nc, c).cells)]]

----------------------------------------------------------------------------
(* find_correlations *)

\* one entry of DataFrame.corr(): Pearson coefficient over the rows where both
\* cells are non-null; NaN when there is no such row or a variance is zero.
\* The coefficient cov / sqrt(vx * vy) is kept as its sign and its square.
Pearson(x, y) ==
    LET both(i) == NotNull(x[i]) /\ NotNull(y[i])
        rs == SelectSeq([i \in 1..Len(x) |-> i], both)
        n == Len(rs)
        xs == [i \in 1..n |-> x[rs[i]][1]]
        ys == [i \in 1..n |-> y[rs[i]][1]]
        xy == [i \in 1..n |-> xs[i] * ys[i]]
        covn == n * SumSeq(xy) - SumSeq(xs) * SumSeq(ys)
        vx == SqDevN(xs)
        vy == SqDevN(ys)
    IN  IF n < 1 \/ vx * vy = 0
        THEN [nan |-> TRUE, sign |-> 0, sq |-> NaN]
        ELSE [nan |-> FALSE, sign |-> Sign(covn), sq |-> Rat(covn * covn, vx * vy)]

\* `not (abs(correlation) < threshold)`: a NaN coefficient passes
AbsNotLt(c, thr) ==
    \/ c.nan
    \/ thr.num <= 0
    \/ RGe(c.sq, RMul(thr, thr))

\* abs(correlation) >= threshold; False when the coefficient is NaN
AbsGe(c, thr) ==
    /\ ~c.nan
    /\ \/ thr.num <= 0
       \/ RGe(c.sq, RMul(thr, thr))

\* f"{col1} - {col2}"
PairKey(col1, col2) == col1 \o col2

CorrIsEmpty(t) == Len(NumericalCols(t)) < 2

\* the (i, j) loop with i < j; a later pair overwrites an earlier one that
\* formats to the same key
CorrResult(t, thr) ==
    LET nc == NumericalCols(t)
        n == Len(nc)
        pairs == {p \in (1..n) \X (1..n) : p[1] < p[2]}
        hit == {p \in pairs : AbsGe(Pearson(nc[p[1]].cells, nc[p[2]].cells), thr)}
        key(p) == PairKey(nc[p[1]].name, nc[p[2]].name)
        before(p, q) == p[1] < q[1] \/ (p[1] = q[1] /\ p[2] < q[2])
        last(k) == CHOOSE p \in hit :
                       /\ key(p) = k
                       /\ \A q \in hit : key(q) = k /\ q # p => before(q, p)
    IN  IF CorrIsEmpty(t) THEN Empty
        ELSE [k \in {key(p) : p \in hit} |->
                  Pearson(nc[last(k)[1]].cells, nc[last(k)[2]].cells)]

----------------------------------------------------------------------------
(* identify_outliers *)

\* the report keeps at most this many outlier values of a column
MaxValues == 10

\* Q1 - threshold * IQR and Q3 + threshold * IQR
LowerBound(vals, thr) ==
    LET Q1 == Quantile(vals, 1, 4)
        Q3 == Quantile(vals, 3, 4)
        IQR == RSub(Q3, Q1)
    IN  RSub(Q1, RMul(thr, IQR))

UpperBound(vals, thr) ==
    LET Q1 == Quantile(vals, 1, 4)
        Q3 == Quantile(vals, 3, 4)
        IQR == RSub(Q3, Q1)
    IN  RAdd(Q3, RMul(thr, IQR))

\* the IQR test with the bounds themselves counted as outliers
IqrInclusive(vals, thr) ==
    LET lo == LowerBound(vals, thr)
        hi == UpperBound(vals, thr)
        out(v) == RLe(Num(v), lo) \/ RGe(Num(v), hi)
    IN  SelectSeq(vals, out)

\* col_data[(col_data < lower_bound) | (col_data > upper_bound)]
IqrOutliers(vals, thr) ==
    LET lo == LowerBound(vals, thr)
        hi == UpperBound(vals, thr)
        out(v) == RLt(Num(v), lo) \/ RGt(Num(v), hi)
    IN  SelectSeq(vals, out)

\* the zero-deviation test inverted
StdIsNotZero(vals) == ~REq(Std2(vals), Num(0))

\* `std == 0`
StdIsZero(vals) == REq(Std2(vals), Num(0))

\* abs((v - mean) / std), squared
ZScore2(v, vals) ==
    LET dev == RSub(Num(v), Mean(vals))
    IN  RDiv(RMul(dev, dev), Std2(vals))

\* z_scores > threshold, the z-score being non-negative
ZGt(z2, thr) ==
    /\ ~z2.nan
    /\ \/ thr.num < 0
       \/ RGt(z2, RMul(thr, thr))

\* col_data[z_scores > threshold]
ZscoreOutliers(vals, thr) ==
    LET out(v) == ZGt(ZScore2(v, vals), thr)
    IN  SelectSeq(vals, out)

\* the unknown-method branch with the bounds themselves counted as outliers
FallbackInclusive(vals, thr) ==
    LET Q1 == Quantile(vals, 1, 4)
        Q3 == Quantile(vals, 3, 4)
        IQR == RSub(Q3, Q1)
        lo == RSub(Q1, RMul(thr, IQR))
        hi == RAdd(Q3, RMul(thr, IQR))
        out(v) == RLe(Num(v), lo) \/ RGe(Num(v), hi)
    IN  SelectSeq(vals, out)

\* the unknown-method branch: the IQR computation, written out again
FallbackOutliers(vals, thr) ==
    LET Q1 == Quantile(vals, 1, 4)
        Q3 == Quantile(vals, 3, 4)
        IQR == RSub(Q3, Q1)
        lo == RSub(Q1, RMul(thr, IQR))
        hi == RAdd(Q3, RMul(thr, IQR))
        out(v) == RLt(Num(v), lo) \/ RGt(Num(v), hi)
    IN  SelectSeq(vals, out)

\* `continue` in the z-score branch
Skipped(vals, method) == method = "zscore" /\ StdIsZero(vals)

ColOutliers(vals, method, thr) ==
    IF method = "iqr" THEN IqrOutliers(vals, thr)
    ELSE IF method = "zscore" THEN ZscoreOutliers(vals, thr)
    ELSE FallbackOutliers(vals, thr)

\* the cap keeping the last values instead of the first
CapValuesTail(outs) ==
    IF Len(outs) <= MaxValues THEN outs
    ELSE SubSeq(outs, Len(outs) - MaxValues + 1, Len(outs))

\* col_outliers.tolist() if len(col_outliers) <= 10 else col_outliers.tolist()[:10]
CapValues(outs) ==
    IF Len(outs) <= MaxValues THEN outs ELSE SubSeq(outs, 1, MaxValues)

OutlierRecord(outs, vals) ==
    [count |-> Len(outs),
     percentage |-> RMul(PyDiv(Len(outs), Len(vals)), Num(100)),
     values |-> CapValues(outs)]

\* `if not col_outliers.empty`
Reported(vals, method, thr) ==
    ~Skipped(vals, method) /\ Len(ColOutliers(vals, method, thr)) > 0

OutliersIsEmpty(t) == Len(NumericalCols(t)) = 0

\* len(col_outliers) / len(col_data) is a division of Python ints
OutliersRaises(t, method, thr) ==
    /\ ~OutliersIsEmpty(t)
    /\ \E i \in 1..Len(NumericalCols(t)) :
          LET vals == DropNa(NumericalCols(t)[i].cells)
          IN  Reported(vals, method, thr) /\ PyDivRaises(Len(vals))

OutliersResult(t, method, thr) ==
    LET nc == NumericalCols(t)
        rep == {i \in 1..Len(nc) : Reported(DropNa(nc[i].cells), method, thr)}
    IN  IF OutliersIsEmpty(t) THEN Empty
        ELSE [c \in {nc[i].name : i \in rep} |->
                 LET vals == DropNa(ColByName(nc, c).cells)
                 IN  OutlierRecord(ColOutliers(vals, method, thr), vals)]

----------------------------------------------------------------------------
(* analyze_categorical_data *)

\* A string cell is a record: [kind |-> "text", text |-> ...] for a text that
\* is no date, [kind |-> "ymd", y, m, d] for the text "y-m-d".
Text(s) == [kind |-> "text", text |-> s, y |-> 0, m |-> 0, d |-> 0]
Ymd(y, m, d) == [kind |-> "ymd", text |-> "", y |-> y, m |-> m, d |-> d]

\* the distinct values in order of first occurrence
RECURSIVE Distinct(_)
Distinct(vals) ==
    IF vals = <<>> THEN <<>>
    ELSE LET init == Distinct(SubSeq(vals, 1, Len(vals) - 1))
             x == vals[Len(vals)]
         IN  IF \E i \in 1..Len(init) : init[i] = x THEN init ELSE Append(init, x)

Count(vals, x) == Cardinality({i \in 1..Len(vals) : vals[i] = x})

\* Series.value_counts() counts the distinct non-null values in order of first
\* occurrence and sorts them by descending count with Series.sort_values, whose
\* default kind 'quicksort' is not a stable sort: the order among equal counts
\* is the one the sort of the build leaves, the same on every call of a run.
TieOrders == {"first", "last"}

ValueCounts(cells, order) ==
    LET vals == DropNa(cells)
        ds == Distinct(vals)
        n == Len(ds)
        cnt(i) == Count(vals, ds[i])
        ahead(j, i) == IF order = "first" THEN j < i ELSE j > i
        pos(i) == 1 + Cardinality({j \in 1..n :
                        cnt(j) > cnt(i) \/ (cnt(j) = cnt(i) /\ ahead(j, i))})
    IN  [k \in 1..n |->
            LET i == CHOOSE i \in 1..n : pos(i) = k
            IN  [value |-> ds[i], count |-> cnt(i)]]

\* two distinct values of the column occur equally often
HasTie(cells) ==
    LET vals == DropNa(cells)
    IN  \E i, j \in 1..Len(vals) :
            vals[i] # vals[j] /\ Count(vals, vals[i]) = Count(vals, vals[j])

\* Series.head(n): the first n entries, all but the last -n when n < 0
SeqHead(s, n) ==
    IF n >= 0 THEN SubSeq(s, 1, IF n < Len(s) THEN n ELSE Len(s))
    ELSE SubSeq(s, 1, Len(s) + n)

NullCount(cells) == Cardinality({i \in 1..Len(cells) : ~NotNull(cells[i])})

CategoricalIsEmpty(t) == Len(CategoricalCols(t)) = 0

CategoricalRecord(cells, top_n, nrows, order) ==
    LET top == SeqHead(ValueCounts(cells, order), top_n)
        total_count == Len(DropNa(cells))
    IN  [unique_values |-> Len(Distinct(DropNa(cells))),
         missing_values |-> NullCount(cells),
         missing_percentage |->
             RMul(RDiv(Num(NullCount(cells)), Num(nrows)), Num(100)),
         top_categories |-> top,
         top_categories_pct |-> [i \in 1..Len(top) |->
             [value |-> top[i].value,
              pct |-> RMul(PyDiv(top[i].count, total_count), Num(100))]]]

\* v / total_count is a division of Python ints
CategoricalRaises(t, top_n) ==
    \E i \in 1..Len(CategoricalCols(t)) :
        LET cells == CategoricalCols(t)[i].cells
        IN  /\ Len(SeqHead(Distinct(DropNa(cells)), top_n)) > 0
            /\ PyDivRaises(Len(DropNa(cells)))

CategoricalResult(t, top_n, order) ==
    LET cc == CategoricalCols(t)
    IN  IF CategoricalIsEmpty(t) THEN Empty
        ELSE [c \in Names(cc) |->
                 CategoricalRecord(ColByName(cc, c).cells, top_n, NRows(t), order)]

\* the call sorts equal counts: it shows the order the build leaves them in
CategoricalSortsTie(t) ==
    \E i \in 1..Len(CategoricalCols(t)) : HasTie(CategoricalCols(t)[i].cells)

----------------------------------------------------------------------------
(* analyze_date_columns *)

\* A Timestamp is its number of hours since 1970-01-01 00:00, a date its day
\* number, day 0 being 1970-01-01 (the proleptic Gregorian calendar of pandas).
DayHours == 24

\* the Timestamp of an hour of a day, and the day of a Timestamp
At(day, hour) == day * DayHours + hour
DayOf(ts) == ts \div DayHours

IsLeap(y) == (y % 4 = 0 /\ y % 100 # 0) \/ y % 400 = 0

DaysInMonth(y, m) ==
    IF m = 2 THEN (IF IsLeap(y) THEN 29 ELSE 28)
    ELSE IF m \in {4, 6, 9, 11} THEN 30 ELSE 31

\* day number of the civil date y-m-d
DaysFromCivil(y, m, d) ==
    LET yy == IF m <= 2 THEN y - 1 ELSE y
        era == yy \div 400
        yoe == yy - era * 400
        mp == IF m > 2 THEN m - 3 ELSE m + 9
        doy == (153 * mp + 2) \div 5 + d - 1
        doe == yoe * 365 + yoe \div 4 - yoe \div 100 + doy
    IN  era * 146097 + doe - 719468

\* civil date <<y, m, d>> of a day number
CivilFromDays(z0) ==
    LET z == z0 + 719468
        era == z \div 146097
        doe == z - era * 146097
        yoe == (doe - doe \div 1460 + doe \div 36524 - doe \div 146096) \div 365
        doy == doe - (365 * yoe + yoe \div 4 - yoe \div 100)
        mp == (5 * doy + 2) \div 153
        d == doy - (153 * mp + 2) \div 5 + 1
        m == IF mp < 10 THEN mp + 3 ELSE mp - 9
        y == yoe + era * 400 + (IF m <= 2 THEN 1 ELSE 0)
    IN  <<y, m, d>>

\* pd.to_datetime(..., errors='coerce') of one string: the date it denotes, NaT
\* when it denotes none
ParseDate(s) ==
    IF /\ s.kind = "ymd"
       /\ s.y \in 1700..2200
       /\ s.m \in 1..12
       /\ s.d \in 1..DaysInMonth(s.y, s.m)
    THEN Some(At(DaysFromCivil(s.y, s.m, s.d), 0))
    ELSE None

\* pd.to_datetime of a column that is not datetime-typed.  A number is taken
\* as nanoseconds since 1970-01-01 (the cells modelled are far below one hour
\* of nanoseconds); a boolean column raises TypeError.
ToDatetimeRaises(col) == col.dtype = "bool"

ToDatetime(col) ==
    [i \in 1..Len(col.cells) |->
        LET c == col.cells[i]
        IN  IF ~NotNull(c) THEN None
            ELSE IF IsNumber(col) THEN Some(IF c[1] >= 0 THEN 0 ELSE -1)
            ELSE ParseDate(c[1])]

\* pd.api.types.is_datetime64_any_dtype
IsDatetime(col) == col.dtype = "datetime64"

\* a column needs this share of non-null dates, over all its rows
DateRatio == Rat(7, 10)

\* the column is left out: conversion raised, or too few cells converted
NotDateLike(col) ==
    /\ ~IsDatetime(col)
    /\ \/ ToDatetimeRaises(col)
       \/ LET date_col == ToDatetime(col)
          IN  RLt(RDiv(Num(Len(DropNa(date_col))), Num(Len(date_col))), DateRatio)

DateCol(col) == IF IsDatetime(col) THEN col.cells ELSE ToDatetime(col)

\* distributions are added for more than this many non-null dates
MinDates == 10

DayNames == <<"Monday", "Tuesday", "Wednesday", "Thursday", "Friday",
              "Saturday", "Sunday">>

\* Timestamp.day_name(): 1970-01-01 was a Thursday
DayName(ts) == DayNames[((DayOf(ts) + 3) % 7) + 1]

MonthNames == <<"January", "February", "March", "April", "May", "June", "July",
                "August", "September", "October", "November", "December">>

\* Timestamp.strftime('%Y-%m-%d'): the text "y-m-d", the time of day dropped
Strftime(ts) == CivilFromDays(DayOf(ts))

\* Series.value_counts().to_dict()
Distribution(vals) ==
    [x \in {vals[i] : i \in 1..Len(vals)} |-> Count(vals, x)]

YearOf(ts) == CivilFromDays(DayOf(ts))[1]
MonthOf(ts) == CivilFromDays(DayOf(ts))[2]

\* Timedelta.days of hi - lo
TimedeltaDays(hi, lo) == (hi - lo) \div DayHours

\* range_days left at 0 when the column has no date
DateRecordZeroRange(date_col) ==
    LET dates == DropNa(date_col)
        n == Len(dates)
        days == [i \in 1..n |-> DayName(dates[i])]
        months == [i \in 1..n |-> MonthNames[MonthOf(dates[i])]]
        years == [i \in 1..n |-> YearOf(dates[i])]
        lo == SeqMin(dates)
        hi == SeqMax(dates)
    IN  [min_date |-> IF n = 0 THEN None ELSE Some(Strftime(lo.num)),
         max_date |-> IF n = 0 THEN None ELSE Some(Strftime(hi.num)),
         range_days |-> IF n = 0 THEN Some(0)
                        ELSE Some(TimedeltaDays(hi.num, lo.num)),
         missing_values |-> NullCount(date_col),
         missing_percentage |->
             RMul(RDiv(Num(NullCount(date_col)), Num(Len(date_col))), Num(100)),
         day_of_week_distribution |->
             IF n > MinDates THEN Some(Distribution(days)) ELSE None,
         month_distribution |->
             IF n > MinDates THEN Some(Distribution(months)) ELSE None,
         year_distribution |->
             IF n > MinDates THEN Some(Distribution(years)) ELSE None]

DateRecord(date_col) ==
    LET dates == DropNa(date_col)
        n == Len(dates)
        days == [i \in 1..n |-> DayName(dates[i])]
        months == [i \in 1..n |-> MonthNames[MonthOf(dates[i])]]
        years == [i \in 1..n |-> YearOf(dates[i])]
        lo == SeqMin(dates)
        hi == SeqMax(dates)
    IN  [min_date |-> IF n = 0 THEN None ELSE Some(Strftime(lo.num)),
         max_date |-> IF n = 0 THEN None ELSE Some(Strftime(hi.num)),
         range_days |-> IF n = 0 THEN None
                        ELSE Some(TimedeltaDays(hi.num, lo.num)),
         missing_values |-> NullCount(date_col),
         missing_percentage |->
             RMul(RDiv(Num(NullCount(date_col)), Num(Len(date_col))), Num(100)),
         day_of_week_distribution |->
             IF n > MinDates THEN Some(Distribution(days)) ELSE None,
         month_distribution |->
             IF n > MinDates THEN Some(Distribution(months)) ELSE None,
         year_distribution |->
             IF n > MinDates THEN Some(Distribution(years)) ELSE None]

DateResult(t) ==
    LET rep == {i \in 1..Len(t) : ~NotDateLike(t[i])}
    IN  [c \in {t[i].name : i \in rep} |-> DateRecord(DateCol(ColByName(t, c)))]

----------------------------------------------------------------------------
(* get_basic_info *)

BasicInfo(t, names) ==
    [rows |-> NRows(t),
     columns |-> Len(t),
     column_names |-> NameSeq(t),
     data_types |-> [c \in Names(t) |-> ColByName(t, c).dtype],
     missing_values |-> [c \in Names(t) |-> NullCount(ColByName(t, c).cells)],
     sheets |-> names]

----------------------------------------------------------------------------
(* The workbooks the engine is run on *)

Null == <<>>

\* cells of a column from a sequence of values, none of them null
Cells(vs) == [i \in 1..Len(vs) |-> <<vs[i]>>]

TSales ==
    << Col(<<"Units">>, "int64", Cells(<<1, 2, 3, 4, 1000>>)),
       Col(<<"Flat">>, "int64", Cells(<<5, 5, 5, 5, 5>>)),
       Col(<<"Price">>, "float64", << <<2>>, <<4>>, Null, <<8>>, <<10>> >>),
       Col(<<"Region">>, "object",
           << <<Text("A")>>, <<Text("A")>>, <<Text("B")>>, <<Text("C")>>, Null >>),
       Col(<<"When">>, "datetime64",
           << <<At(19723, 23)>>, <<At(19754, 0)>>, Null, <<At(19782, 1)>>,
              <<At(19723, 23)>> >>) >>

TNotes ==
    << Col(<<"Note">>, "object",
           << <<Text("ok")>>, <<Text("late")>>, <<Text("ok")>> >>),
       Col(<<"Seen">>, "object",
           << <<Ymd(2024, 2, 29)>>, <<Ymd(2024, 2, 30)>>, <<Ymd(2023, 12, 31)>> >>),
       Col(<<"Done">>, "bool", Cells(<<TRUE, FALSE, TRUE>>)) >>

TStock ==
    << Col(<<"Qty">>, "int64", Cells(<<1, 2, 3, 100>>)) >>

Sheet(name, table) == [name |-> name, table |-> table]

\* the files that exist, each with its sheets in file order
Files ==
    [p \in {"sales.xlsx", "notes.xlsx", "stock.xlsx"} |->
        IF p = "sales.xlsx" THEN <<Sheet("Sheet1", TSales), Sheet("Sheet2", TNotes)>>
        ELSE IF p = "notes.xlsx" THEN <<Sheet("Sheet1", TNotes)>>
        ELSE <<Sheet("Sheet2", TStock)>>]

\* paths load_excel is called with: none, empty, existing files, a missing one
PathArgs == {None, Some("")} \cup {Some(p) : p \in DOMAIN Files} \cup {Some("gone.xlsx")}

\* sheet names the passes are called with
SheetArgs == {None, Some(""), Some("Sheet2")}

----------------------------------------------------------------------------
(* The engine *)

MaxLoads == 2
MaxCalls == 2

DefaultCorrThreshold == Rat(1, 2)
DefaultOutlierThreshold == Rat(3, 2)
DefaultTopN == 5

Call(name, sheet_name, method, threshold, top_n, path) ==
    [name |-> name, sheet_name |-> sheet_name, method |-> method,
     threshold |-> threshold, top_n |-> top_n, path |-> path]

NoCall == Call("__init__", None, "", NaN, 0, None)

Init ==
    /\ file_path = None
    /\ data = None
    /\ sheets = <<>>
    /\ insights = <<>>
    /\ op = NoCall
    /\ ret = None
    /\ exc = "None"
    /\ ran = <<>>
    /\ loads = 0
    /\ calls = 0
    /\ caught = "None"
    /\ ties = "unset"
    /\ again = FALSE
    /\ threads = <<>>

\* self.sheets is a dict in insertion order: a sequence of (name, table)
SheetNames(sh) == [i \in 1..Len(sh) |-> sh[i].name]
HasSheet(sh, name) == \E i \in 1..Len(sh) : sh[i].name = name
SheetTable(sh, name) == sh[CHOOSE i \in 1..Len(sh) : sh[i].name = name].table

\* self.sheets[sheet] = table
PutSheet(sh, name, table) ==
    IF HasSheet(sh, name)
    THEN [i \in 1..Len(sh) |-> IF sh[i].name = name THEN Sheet(name, table) ELSE sh[i]]
    ELSE Append(sh, Sheet(name, table))

\* the loop over sheet_names, stopped after k sheets
RECURSIVE PutSheets(_, _, _)
PutSheets(sh, file, k) ==
    IF k = 0 THEN sh
    ELSE PutSheet(PutSheets(sh, file, k - 1), file[k].name, file[k].table)

\* the last sheet made the default table
DefaultSheetLast(file) == file[Len(file)].name

\* sheet_names[0]
DefaultSheet(file) == file[1].name

\* load_excel(file_path).  The file is read sheet by sheet; opening it or
\* reading any sheet may fail, which ends the load with False.
LoadExcel(arg) ==
    /\ loads < MaxLoads
    /\ loads' = loads + 1
    /\ op' = Call("load_excel", None, "", NaN, 0, arg)
    /\ again' = (op' = op)
    /\ file_path' = IF Truthy(arg) THEN arg ELSE file_path
    /\ exc' = "None"
    /\ UNCHANGED <<insights, ran, calls, ties, threads>>
    /\ IF ~Truthy(file_path')
       THEN ret' = FALSE /\ caught' = "None" /\ UNCHANGED <<sheets, data>>
       ELSE IF file_path'[1] \notin DOMAIN Files
       THEN ret' = FALSE /\ caught' = "FileNotFoundError" /\ UNCHANGED <<sheets, data>>
       ELSE LET file == Files[file_path'[1]]
            IN  \E k \in 0..Len(file) :
                   /\ sheets' = PutSheets(sheets, file, k)
                   /\ IF k < Len(file)
                      THEN ret' = FALSE /\ caught' = "Exception" /\ UNCHANGED data
                      ELSE /\ ret' = TRUE
                           /\ caught' = "None"
                           /\ data' = IF Len(file) > 0
                                      THEN Some(SheetTable(sheets', DefaultSheet(file)))
                                      ELSE data

\* Resolve with an empty table standing in for a missing default table
ResolveEmptyTable(sheet_name) ==
    IF Truthy(sheet_name) /\ HasSheet(sheets, sheet_name[1])
    THEN Some(SheetTable(sheets, sheet_name[1]))
    ELSE IF data # None THEN data ELSE Some(<<>>)

\* the table a pass works on: the named sheet, else the default table
Resolve(sheet_name) ==
    IF Truthy(sheet_name) /\ HasSheet(sheets, sheet_name[1])
    THEN Some(SheetTable(sheets, sheet_name[1]))
    ELSE data

\* the key a pass stores its record under
SheetKey(sheet_name) == IF Truthy(sheet_name) THEN sheet_name[1] ELSE "default"

\* the record stored before under the same key kept under "previous"
PutKeepPrevious(d, kind, key, rec) ==
    LET old == IF kind \in DOMAIN d THEN d[kind] ELSE <<>>
        keys == IF key \in DOMAIN old THEN {key, "previous"} ELSE {key}
        new == [k \in (DOMAIN old) \cup keys |->
                   IF k = key THEN rec
                   ELSE IF k = "previous" /\ key \in DOMAIN old THEN old[key]
                   ELSE old[k]]
    IN  [x \in (DOMAIN d) \cup {kind} |-> IF x = kind THEN new ELSE d[x]]

\* d[kind][key] = rec, creating d[kind] when it is missing
Put(d, kind, key, rec) ==
    LET old == IF kind \in DOMAIN d THEN d[kind] ELSE <<>>
        new == [k \in (DOMAIN old) \cup {key} |-> IF k = key THEN rec ELSE old[k]]
    IN  [x \in (DOMAIN d) \cup {kind} |-> IF x = kind THEN new ELSE d[x]]

Has(d, kind, key) == kind \in DOMAIN d /\ key \in DOMAIN d[kind]

\* The common shape of the five passes: no table -> {}; the column class is
\* absent -> {}; else compute, store under the sheet key, return.
Pass(call, kind, isEmpty, raises, result) ==
    /\ calls < MaxCalls
    /\ calls' = calls + 1
    /\ op' = call
    /\ again' = (op' = op)
    /\ caught' = "None"
    /\ UNCHANGED <<file_path, data, sheets, loads, threads>>
    /\ IF Resolve(call.sheet_name) = None
       THEN ret' = Empty /\ exc' = "None" /\ UNCHANGED <<insights, ran>>
       ELSE IF isEmpty
       THEN /\ ret' = Empty
            /\ exc' = "None"
            /\ ran' = Put(ran, kind, SheetKey(call.sheet_name), Empty)
            /\ UNCHANGED insights
       ELSE IF raises
       THEN ret' = None /\ exc' = "ZeroDivisionError" /\ UNCHANGED <<insights, ran>>
       ELSE /\ ret' = result
            /\ exc' = "None"
            /\ insights' = Put(insights, kind, SheetKey(call.sheet_name), ret')
            /\ ran' = Put(ran, kind, SheetKey(call.sheet_name), ret')

\* the table of Resolve, when there is one
Table(sheet_name) == Resolve(sheet_name)[1]

GenerateSummaryStatistics(sheet_name) ==
    /\ Pass(Call("generate_summary_statistics", sheet_name, "", NaN, 0, None),
            "summary_statistics",
            SummaryIsEmpty(Table(sheet_name)),
            FALSE,
            SummaryResult(Table(sheet_name)))
    /\ UNCHANGED ties

FindCorrelations(sheet_name, threshold) ==
    /\ Pass(Call("find_correlations", sheet_name, "", threshold, 0, None),
            "correlations",
            CorrIsEmpty(Table(sheet_name)),
            FALSE,
            CorrResult(Table(sheet_name), threshold))
    /\ UNCHANGED ties

IdentifyOutliers(sheet_name, method, threshold) ==
    /\ Pass(Call("identify_outliers", sheet_name, method, threshold, 0, None),
            "outliers",
            OutliersIsEmpty(Table(sheet_name)),
            OutliersRaises(Table(sheet_name), method, threshold),
            OutliersResult(Table(sheet_name), method, threshold))
    /\ UNCHANGED ties

AnalyzeCategoricalData(sheet_name, top_n) ==
    \E order \in (IF ties = "unset" THEN TieOrders ELSE {ties}) :
        /\ Pass(Call("analyze_categorical_data", sheet_name, "", NaN, top_n, None),
                "categorical_analysis",
                CategoricalIsEmpty(Table(sheet_name)),
                CategoricalRaises(Table(sheet_name), top_n),
                CategoricalResult(Table(sheet_name), top_n, order))
        /\ ties' = IF /\ Resolve(sheet_name) # None
                      /\ CategoricalSortsTie(Table(sheet_name))
                   THEN order ELSE ties

AnalyzeDateColumns(sheet_name) ==
    /\ Pass(Call("analyze_date_columns", sheet_name, "", NaN, 0, None),
            "date_analysis",
            FALSE,
            FALSE,
            DateResult(Table(sheet_name)))
    /\ UNCHANGED ties

GetBasicInfo ==
    /\ calls < MaxCalls
    /\ calls' = calls + 1
    /\ op' = Call("get_basic_info", None, "", NaN, 0, None)
    /\ again' = (op' = op)
    /\ exc' = "None"
    /\ caught' = "None"
    /\ UNCHANGED <<file_path, data, sheets, loads, ran, ties, threads>>
    /\ IF data = None
       THEN ret' = Empty /\ UNCHANGED insights
       ELSE /\ ret' = BasicInfo(data[1], SheetNames(sheets))
            /\ insights' = [x \in (DOMAIN insights) \cup {"basic_info"} |->
                               IF x = "basic_info" THEN ret' ELSE insights[x]]

\* The report, by its headings: the file section when a path is known, with
\* the sheet names, rows and columns of basic_info when it is there, then one
\* section for each kind of record, in the order the code renders them, with
\* the sheet keys it has records for.
\* (The 'Generated on' line and the figures under the headings are left out.)
ReportText(path, ins) ==
    LET has(kind) == kind \in DOMAIN ins
        kinds == SelectSeq(<<"summary_statistics", "correlations", "outliers",
                             "categorical_analysis", "date_analysis">>, has)
    IN  [file |-> IF Truthy(path) THEN path ELSE None,
         info |-> IF Truthy(path) /\ "basic_info" \in DOMAIN ins
                  THEN Some([sheets |-> ins["basic_info"].sheets,
                             rows |-> ins["basic_info"].rows,
                             columns |-> ins["basic_info"].columns])
                  ELSE None,
         sections |-> [i \in 1..Len(kinds) |->
                          [kind |-> kinds[i], sheets |-> DOMAIN ins[kinds[i]]]]]

\* generate_insights_report(output_file): nothing without insights; else the
\* report is written to output_file (None returned), or returned when no file
\* is given or writing it fails.
GenerateInsightsReport(output_file) ==
    /\ calls < MaxCalls
    /\ calls' = calls + 1
    /\ op' = Call("generate_insights_report", None, "", NaN, 0, output_file)
    /\ again' = (op' = op)
    /\ exc' = "None"
    /\ UNCHANGED <<file_path, data, sheets, insights, ran, loads, ties, threads>>
    /\ IF insights = Empty
       THEN ret' = None /\ caught' = "None"
       ELSE IF Truthy(output_file)
       THEN \E written \in BOOLEAN :
               IF written
               THEN ret' = None /\ caught' = "None"
               ELSE ret' = Some(ReportText(file_path, insights)) /\ caught' = "Exception"
       ELSE ret' = Some(ReportText(file_path, insights)) /\ caught' = "None"

\* how many columns get a histogram, a bar chart, a pie chart, and the most
\* distinct values a pie chart is drawn for
HistCols == 5
BarCols == 5
PieCols == 3
PieMaxUnique == 10

\* saved_files: the charts in the order they are saved
SavedFiles(t, dir) ==
    LET nc == NameSeq(NumericalCols(t))
        cc == CategoricalCols(t)
        few(c) == Len(Distinct(DropNa(c.cells))) <= PieMaxUnique
        pies == SelectSeq(SeqHead(cc, PieCols), few)
        Chart(d, kind, col) == [dir |-> d, kind |-> kind, col |-> col]
    IN  [i \in 1..Len(SeqHead(nc, HistCols)) |-> Chart(dir, "histogram", nc[i])]
        \o [i \in 1..Len(SeqHead(cc, BarCols)) |-> Chart(dir, "barchart", cc[i].name)]
        \o (IF Len(nc) > 1 THEN <<Chart(dir, "correlation_heatmap", <<>>)>> ELSE <<>>)
        \o (IF Len(nc) > 0 THEN <<Chart(dir, "boxplots", <<>>)>> ELSE <<>>)
        \o [i \in 1..Len(pies) |-> Chart(dir, "piechart", pies[i].name)]

\* visualize_data with the rows that hold a null dropped from the table in
\* place before plotting
VisualizeDataInPlace(output_dir, sheet_name) ==
    /\ calls < MaxCalls
    /\ calls' = calls + 1
    /\ op' = Call("visualize_data", sheet_name, "", NaN, 0, output_dir)
    /\ again' = (op' = op)
    /\ caught' = "None"
    /\ UNCHANGED <<file_path, insights, ran, loads, ties, threads>>
    /\ IF Resolve(sheet_name) = None
       THEN ret' = <<>> /\ exc' = "None" /\ UNCHANGED <<data, sheets>>
       ELSE LET t == Resolve(sheet_name)[1]
                full(r) == \A i \in 1..Len(t) : NotNull(t[i].cells[r])
                rows == SelectSeq([r \in 1..NRows(t) |-> r], full)
                kept == [i \in 1..Len(t) |->
                            Col(t[i].name, t[i].dtype,
                                [k \in 1..Len(rows) |-> t[i].cells[rows[k]]])]
            IN  /\ IF Truthy(sheet_name) /\ HasSheet(sheets, sheet_name[1])
                   THEN sheets' = PutSheet(sheets, sheet_name[1], kept)
                        /\ UNCHANGED data
                   ELSE data' = Some(kept) /\ UNCHANGED sheets
                /\ IF Truthy(output_dir)
                   THEN \E saved \in BOOLEAN :
                           IF saved
                           THEN ret' = SavedFiles(kept, output_dir[1]) /\ exc' = "None"
                           ELSE ret' = None /\ exc' = "OSError"
                   ELSE ret' = <<>> /\ exc' = "None"

\* visualize_data(output_dir, sheet_name): the charts are drawn from the table
\* and, when output_dir is given, saved there and listed; creating the
\* directory or saving a chart may fail, which the call does not catch.
VisualizeData(output_dir, sheet_name) ==
    /\ calls < MaxCalls
    /\ calls' = calls + 1
    /\ op' = Call("visualize_data", sheet_name, "", NaN, 0, output_dir)
    /\ again' = (op' = op)
    /\ caught' = "None"
    /\ UNCHANGED <<file_path, data, sheets, insights, ran, loads, ties, threads>>
    /\ IF Resolve(sheet_name) = None
       THEN ret' = <<>> /\ exc' = "None"
       ELSE IF Truthy(output_dir)
       THEN \E saved \in BOOLEAN :
               IF saved
               THEN ret' = SavedFiles(Table(sheet_name), output_dir[1]) /\ exc' = "None"
               ELSE ret' = None /\ exc' = "OSError"
       ELSE ret' = <<>> /\ exc' = "None"

Methods == {"iqr", "zscore", "mad"}

Load == \E arg \in PathArgs : LoadExcel(arg)
Summary == \E s \in SheetArgs : GenerateSummaryStatistics(s)
Correlations == \E s \in SheetArgs : FindCorrelations(s, DefaultCorrThreshold)
Outliers == \E s \in SheetArgs, m \in Methods : IdentifyOutliers(s, m, DefaultOutlierThreshold)
Categorical == \E s \in SheetArgs : AnalyzeCategoricalData(s, DefaultTopN)
Dates == \E s \in SheetArgs : AnalyzeDateColumns(s)
Report == \E f \in {None, Some("report.md")} : GenerateInsightsReport(f)
Visualize ==
    \E d \in {None, Some("charts")}, s \in {None, Some("Sheet2")} : VisualizeData(d, s)

Next ==
    \/ Load
    \/ Summary
    \/ Correlations
    \/ Outliers
    \/ Categorical
    \/ Dates
    \/ GetBasicInfo
    \/ Report
    \/ Visualize

Spec == Init /\ [][Next]_vars

----------------------------------------------------------------------------
(* The passes as functions of the table: every small numeric table *)

MaxRows == 4
MaxVal == 3
LongExtra == 2

CellVals == {Null} \cup {<<v>> : v \in 0..MaxVal}

Ramp(n) == [i \in 1..n |-> <<i>>]
Const(n) == [i \in 1..n |-> <<7>>]

\* a column of any cells beside a ramp, a constant column and a text column
SmallTables ==
    UNION {{ << Col(<<"x">>, "float64", cells),
                Col(<<"y">>, "int64", Ramp(n)),
                Col(<<"k">>, "int64", Const(n)),
                Col(<<"t">>, "object", [i \in 1..n |-> <<Text("A")>>]) >>
             : cells \in [1..n -> CellVals]} : n \in 0..MaxRows}

\* a column with more values than the report keeps, in scrambled order, one
\* cell null
Scrambled(n) ==
    [i \in 1..(n + 1) |-> IF i = 3 THEN Null
                          ELSE IF i < 3 THEN <<(i * 5) % 13>>
                          ELSE <<((i - 1) * 5) % 13>>]

LongTables ==
    {<< Col(<<"v">>, "int64", Scrambled(n)) >> :
        n \in (MaxValues - 1)..(MaxValues + LongExtra)}

\* three columns whose pair keys coincide: "a - b" with "a", "a" with "b - a"
TPairs ==
    << Col(<<"a", "b">>, "int64", Cells(<<1, 2, 3>>)),
       Col(<<"a">>, "int64", Cells(<<3, 2, 1>>)),
       Col(<<"b", "a">>, "int64", Cells(<<3, 2, 1>>)) >>

\* the same names, the first column constant
TPairsFlat ==
    << Col(<<"a", "b">>, "int64", Cells(<<5, 5, 5>>)),
       Col(<<"a">>, "int64", Cells(<<3, 2, 1>>)),
       Col(<<"b", "a">>, "int64", Cells(<<1, 2, 3>>)) >>

TFive == << Col(<<"v">>, "int64", Cells(<<1, 2, 3, 4, 1000>>)) >>

\* a column without a value, a column of one value, a column of five
TSparse ==
    << Col(<<"none">>, "float64", << Null, Null, Null, Null, Null >>),
       Col(<<"one">>, "float64", << Null, <<5>>, Null, Null, Null >>),
       Col(<<"five">>, "int64", Cells(<<9, 1, 7, 3, 5>>)) >>

Tables == SmallTables \cup LongTables
             \cup {TPairs, TPairsFlat, TFive, TStock, TNotes, TSparse}

OutlierThresholds == {Rat(-1, 1), Rat(0, 1), Rat(1, 2), Rat(3, 2), Rat(3, 1)}
CorrThresholds == {Rat(-1, 2), Rat(0, 1), Rat(1, 2), Rat(1, 1)}

\* the engine after load_excel("book.xlsx") of a workbook of one sheet, t
Loaded(t) ==
    /\ file_path = Some("book.xlsx")
    /\ data = Some(t)
    /\ sheets = <<Sheet("Sheet1", t)>>
    /\ insights = <<>>
    /\ op = Call("load_excel", None, "", NaN, 0, Some("book.xlsx"))
    /\ ret = TRUE
    /\ exc = "None"
    /\ ran = <<>>
    /\ loads = 1
    /\ calls = 0
    /\ caught = "None"
    /\ ties = "unset"
    /\ again = FALSE
    /\ threads = <<>>

InitTable == \E t \in Tables : Loaded(t)

TableArgs == {None, Some("Sheet1")}

OutliersOf ==
    /\ calls = 0
    /\ \E s \in TableArgs, m \in Methods, thr \in OutlierThresholds :
          IdentifyOutliers(s, m, thr)

CorrelationsOf ==
    /\ calls = 0
    /\ \E s \in TableArgs, thr \in CorrThresholds : FindCorrelations(s, thr)

SummaryOf ==
    /\ calls = 0
    /\ \E s \in TableArgs : GenerateSummaryStatistics(s)

NextTable ==
    \/ OutliersOf
    \/ CorrelationsOf
    \/ SummaryOf

SpecTable == InitTable /\ [][NextTable]_vars

----------------------------------------------------------------------------
(* The categorical and the date pass on every small table of strings *)

\* a null, a text, two dates and a text that reads as a date but is none
TextVals == {Null, <<Text("A")>>, <<Ymd(2024, 2, 29)>>, <<Ymd(2023, 12, 31)>>,
             <<Ymd(2024, 2, 30)>>}

TextTables ==
    UNION {{ << Col(<<"s">>, "object", cells) >> : cells \in [1..n -> TextVals]}
             : n \in 0..MaxRows}

TLetters ==
    << Col(<<"c">>, "object",
           << <<Text("A")>>, <<Text("A")>>, <<Text("B")>>, <<Text("C")>> >>) >>

\* tables with columns of other types beside them
MixedTables == <<TLetters, TSales, TNotes, TStock>>

InitText ==
    \/ \E t \in TextTables : Loaded(t)
    \/ \E i \in 1..Len(MixedTables) : Loaded(MixedTables[i])

\* each of the two passes once, in either order
CategoricalOf ==
    /\ "categorical_analysis" \notin DOMAIN ran
    /\ \E n \in {2, DefaultTopN} : AnalyzeCategoricalData(None, n)

DatesOf ==
    /\ "date_analysis" \notin DOMAIN ran
    /\ AnalyzeDateColumns(None)

NextText ==
    \/ CategoricalOf
    \/ DatesOf

SpecText == InitText /\ [][NextText]_vars

----------------------------------------------------------------------------
(* Two passes called concurrently on one engine *)

\* A pass reads the table and computes its result without touching the
\* engine; the store is three steps on self.insights:
\*     if kind not in self.insights:           (check)
\*         self.insights[kind] = {}            (create)
\*     self.insights[kind][key] = result       (store)
\* There is no lock around them: another thread can run between any two.
ThreadIds == {1, 2}

\* the engine after load_excel("sales.xlsx"), and after a summary of the
\* default table as well
InitStore ==
    /\ file_path = Some("sales.xlsx")
    /\ data = Some(TSales)
    /\ sheets = Files["sales.xlsx"]
    /\ exc = "None"
    /\ loads = 1
    /\ caught = "None"
    /\ ties = "unset"
    /\ again = FALSE
    /\ threads = [i \in ThreadIds |->
                     [pc |-> "idle", kind |-> "", key |-> "", rec |-> Empty,
                      stores |-> FALSE]]
    /\ \/ /\ op = Call("load_excel", None, "", NaN, 0, Some("sales.xlsx"))
          /\ ret = TRUE
          /\ calls = 0
          /\ insights = Empty
          /\ ran = Empty
       \/ /\ op = Call("generate_summary_statistics", None, "", NaN, 0, None)
          /\ ret = SummaryResult(TSales)
          /\ calls = 1
          /\ insights = Put(Empty, "summary_statistics", "default", ret)
          /\ ran = insights

\* thread i enters generate_summary_statistics(sheet_name) or
\* identify_outliers(sheet_name): resolves the table and computes the result;
\* a pass that returns {} early never reaches the store
ThreadBegin(i) ==
    /\ threads[i].pc = "idle"
    /\ \E name \in {"generate_summary_statistics", "identify_outliers"},
          sheet_name \in {None, Some("Sheet1"), Some("Sheet2")} :
          LET t == Table(sheet_name)
              summary == name = "generate_summary_statistics"
              early == IF summary THEN SummaryIsEmpty(t) ELSE OutliersIsEmpty(t)
              result == IF summary THEN SummaryResult(t)
                        ELSE OutliersResult(t, "iqr", DefaultOutlierThreshold)
          IN  threads' = [threads EXCEPT ![i] =
                  [pc |-> IF early THEN "done" ELSE "check",
                   kind |-> IF summary THEN "summary_statistics" ELSE "outliers",
                   key |-> SheetKey(sheet_name),
                   rec |-> IF early THEN Empty ELSE result,
                   stores |-> ~early]]
    /\ UNCHANGED <<file_path, data, sheets, insights, op, ret, exc, ran, loads,
                   calls, caught, ties, again>>

\* `if kind not in self.insights`
ThreadCheck(i) ==
    /\ threads[i].pc = "check"
    /\ threads' = [threads EXCEPT ![i].pc =
                       IF threads[i].kind \in DOMAIN insights THEN "store"
                       ELSE "create"]
    /\ UNCHANGED <<file_path, data, sheets, insights, op, ret, exc, ran, loads,
                   calls, caught, ties, again>>

\* `self.insights[kind] = {}`
ThreadCreate(i) ==
    /\ threads[i].pc = "create"
    /\ insights' = [x \in (DOMAIN insights) \cup {threads[i].kind} |->
                       IF x = threads[i].kind THEN Empty ELSE insights[x]]
    /\ threads' = [threads EXCEPT ![i].pc = "store"]
    /\ UNCHANGED <<file_path, data, sheets, op, ret, exc, ran, loads, calls,
                   caught, ties, again>>

\* `self.insights[kind][key] = result`
ThreadStore(i) ==
    /\ threads[i].pc = "store"
    /\ insights' = Put(insights, threads[i].kind, threads[i].key, threads[i].rec)
    /\ threads' = [threads EXCEPT ![i].pc = "done"]
    /\ UNCHANGED <<file_path, data, sheets, op, ret, exc, ran, loads, calls,
                   caught, ties, again>>

NextStore ==
    \/ \E i \in ThreadIds : ThreadBegin(i)
    \/ \E i \in ThreadIds : ThreadCheck(i)
    \/ \E i \in ThreadIds : ThreadCreate(i)
    \/ \E i \in ThreadIds : ThreadStore(i)

SpecStore == InitStore /\ [][NextStore]_vars

----------------------------------------------------------------------------
(* Properties *)

PassNames == {"generate_summary_statistics", "find_correlations",
              "identify_outliers", "analyze_categorical_data",
              "analyze_date_columns", "get_basic_info"}

\* the step is a call of a pass
PassStep == calls' = calls + 1 /\ op'.name \in PassNames

\* columns of a table by their declared type, read off the table itself
NumericIdx(t) == {i \in 1..Len(t) : t[i].dtype \in {"int64", "float64"}}
StringIdx(t) == {i \in 1..Len(t) : t[i].dtype \in {"object", "string", "category"}}

\* C1: last-write-wins: whenever a record is stored for a pass kind and a sheet
\* key, it is the result of the latest invocation of that pass for that key
\* that ran on a loaded table, an invocation with an empty result included.
C1_LastWriteWins ==
    \A kind \in DOMAIN ran : \A key \in DOMAIN ran[kind] :
        Has(insights, kind, key) => insights[kind][key] = ran[kind][key]

\* C2: NoDataLoaded: a pass called while no table was ever loaded (no default
\* table, no sheet) returns an empty result, raises nothing and leaves the
\* insights as they were.
C2_NoDataLoaded ==
    [][(PassStep /\ data = None /\ sheets = <<>>)
          => (ret' = Empty /\ exc' = "None" /\ insights' = insights)]_vars

C2_Witness ==
    /\ data = None
    /\ sheets = <<>>
    /\ op.name = "analyze_date_columns"
    /\ op.sheet_name = Some("Sheet2")
    /\ ret = Empty
    /\ calls = MaxCalls

\* C3: UnsupportedColumnSet: no pass raises; summary statistics and outliers on
\* a table without a numeric column, correlations on a table with fewer than
\* two, the categorical pass on a table without a string column return an
\* empty result; and a pass whose column class is present returns a record of
\* exactly those columns, whatever was called before.
C3_UnsupportedColumnSet ==
    [][(PassStep /\ Resolve(op'.sheet_name) # None /\ op'.name # "get_basic_info") =>
          LET t == Resolve(op'.sheet_name)[1]
              name == op'.name
              nnum == Cardinality(NumericIdx(t))
              nstr == Cardinality(StringIdx(t))
          IN  /\ exc' = "None"
              /\ (name \in {"generate_summary_statistics", "identify_outliers"}
                    /\ nnum = 0) => ret' = Empty
              /\ (name = "find_correlations" /\ nnum < 2) => ret' = Empty
              /\ (name = "analyze_categorical_data" /\ nstr = 0) => ret' = Empty
              /\ (name = "generate_summary_statistics" /\ nnum > 0) =>
                    /\ ret' # Empty
                    /\ DOMAIN ret'.statistics = {t[i].name : i \in NumericIdx(t)}
              /\ (name = "analyze_categorical_data" /\ nstr > 0) =>
                    /\ ret' # Empty
                    /\ DOMAIN ret' = {t[i].name : i \in StringIdx(t)}
              /\ (name = "identify_outliers" /\ nnum > 0) =>
                    DOMAIN ret' \subseteq {t[i].name : i \in NumericIdx(t)}]_vars

\* an empty summary for want of numeric columns was followed by a categorical
\* pass that reported its columns
C3_Witness ==
    /\ Has(ran, "summary_statistics", "default")
    /\ ran["summary_statistics"]["default"] = Empty
    /\ op.name = "analyze_categorical_data"
    /\ ret # Empty
    /\ exc = "None"

\* the table the last call worked on, and its non-null values of column i
OpTable == Resolve(op.sheet_name)[1]
Values(t, i) == DropNa(t[i].cells)

IsOutlierCall(method) ==
    /\ op.name = "identify_outliers"
    /\ op.method = method
    /\ Resolve(op.sheet_name) # None

\* C4: UnknownMethod fallback: identify_outliers with a method other than
\* 'iqr' and 'zscore' raises nothing and returns and stores the very record
\* that method 'iqr' gives for the same table and threshold.
C4_UnknownMethodIsIqr ==
    (op.name = "identify_outliers" /\ op.method \notin {"iqr", "zscore"}) =>
        LET t == OpTable
            iqr == [c \in {t[i].name : i \in
                            {j \in NumericIdx(t) :
                                Len(IqrOutliers(Values(t, j), op.threshold)) > 0}} |->
                       LET vals == DropNa(ColByName(t, c).cells)
                       IN  OutlierRecord(IqrOutliers(vals, op.threshold), vals)]
        IN  /\ exc = "None"
            /\ ret = iqr
            /\ NumericIdx(t) # {} =>
                  /\ Has(insights, "outliers", SheetKey(op.sheet_name))
                  /\ insights["outliers"][SheetKey(op.sheet_name)] = iqr

C4_Witness ==
    /\ op.name = "identify_outliers"
    /\ op.method = "mad"
    /\ op.threshold = Rat(1, 2)
    /\ <<"x">> \in DOMAIN ret
    /\ <<"y">> \notin DOMAIN ret

\* sums over the non-null values of a column, for the z-score written in
\* integers: with n values of sum S and sum of squares Q, the z-score of v
\* exceeds tn / td  iff  tn < 0, or (n v - S)^2 (n - 1) td^2 > tn^2 n (n Q - S^2)
SumSq(vals) == SumSeq([i \in 1..Len(vals) |-> vals[i] * vals[i]])

ZExceeds(v, vals, thr) ==
    LET n == Len(vals)
        S == SumSeq(vals)
        ss == n * SumSq(vals) - S * S
        dev == n * v - S
    IN  /\ n >= 2
        /\ ss > 0
        /\ \/ thr.num < 0
           \/ dev * dev * (n - 1) * thr.den * thr.den > thr.num * thr.num * n * ss

AllEqual(vals) == \A i, j \in 1..Len(vals) : vals[i] = vals[j]

\* C5: with method 'zscore' nothing is raised, a column whose non-null values
\* are all equal is never reported, whatever the threshold, and every other
\* numeric column is reported exactly when one of its values has a z-score
\* above the threshold.
C5_ZscoreZeroStd ==
    IsOutlierCall("zscore") =>
        /\ exc = "None"
        /\ \A i \in NumericIdx(OpTable) :
              LET vals == Values(OpTable, i)
              IN  IF AllEqual(vals) THEN OpTable[i].name \notin DOMAIN ret
                  ELSE OpTable[i].name \in DOMAIN ret
                          <=> \E k \in 1..Len(vals) : ZExceeds(vals[k], vals, op.threshold)

\* a constant column beside a reported one, at a negative threshold
C5_Witness ==
    /\ IsOutlierCall("zscore")
    /\ op.threshold = Rat(-1, 1)
    /\ \E i \in NumericIdx(OpTable) :
          /\ Len(Values(OpTable, i)) >= 2
          /\ AllEqual(Values(OpTable, i))
          /\ NullCount(OpTable[i].cells) > 0
    /\ <<"k">> \notin DOMAIN ret
    /\ <<"y">> \in DOMAIN ret

\* Pearson's coefficient of columns i and j in integers, over the rows where
\* both are non-null: n, the sums, n * covariance, n * variances
PairRows(t, i, j) ==
    {r \in 1..NRows(t) : t[i].cells[r] # Null /\ t[j].cells[r] # Null}

\* the sum of f[x] for x in S
RECURSIVE SetSum(_, _)
SetSum(S, f) ==
    IF S = {} THEN 0
    ELSE LET x == CHOOSE x \in S : TRUE IN f[x] + SetSum(S \ {x}, f)

PairStats(t, i, j) ==
    LET rows == PairRows(t, i, j)
        n == Cardinality(rows)
        X == [r \in rows |-> t[i].cells[r][1]]
        Y == [r \in rows |-> t[j].cells[r][1]]
        XX == [r \in rows |-> X[r] * X[r]]
        YY == [r \in rows |-> Y[r] * Y[r]]
        XY == [r \in rows |-> X[r] * Y[r]]
    IN  [n |-> n,
         cov |-> n * SetSum(rows, XY) - SetSum(rows, X) * SetSum(rows, Y),
         vx |-> n * SetSum(rows, XX) - SetSum(rows, X) * SetSum(rows, X),
         vy |-> n * SetSum(rows, YY) - SetSum(rows, Y) * SetSum(rows, Y)]

\* the coefficient is defined and |coefficient| >= tn / td
PairQualifies(t, i, j, thr) ==
    LET st == PairStats(t, i, j)
    IN  /\ st.vx > 0
        /\ st.vy > 0
        /\ \/ thr.num <= 0
           \/ st.cov * st.cov * thr.den * thr.den >= thr.num * thr.num * st.vx * st.vy

NumericPairs(t) == {p \in NumericIdx(t) \X NumericIdx(t) : p[1] < p[2]}

ZeroVariance(t, i) == AllEqual(Values(t, i))

IsCorrCall ==
    /\ op.name = "find_correlations"
    /\ Resolve(op.sheet_name) # None

\* C6: find_correlations raises nothing; no reported coefficient is undefined
\* and none is that of a pair with a zero-variance column, at any threshold,
\* zero and negative included; a pair of two other columns whose coefficient
\* reaches the threshold has its key in the mapping.
C6_ZeroVarianceExcluded ==
    IsCorrCall =>
        LET t == OpTable
        IN  /\ exc = "None"
            /\ \A k \in DOMAIN ret :
                  /\ ~ret[k].nan
                  /\ \E p \in NumericPairs(t) :
                        /\ t[p[1]].name \o t[p[2]].name = k
                        /\ ~ZeroVariance(t, p[1])
                        /\ ~ZeroVariance(t, p[2])
                        /\ PairStats(t, p[1], p[2]).cov * PairStats(t, p[1], p[2]).cov
                             * ret[k].sq.den
                           = ret[k].sq.num * PairStats(t, p[1], p[2]).vx
                               * PairStats(t, p[1], p[2]).vy
            /\ \A p \in NumericPairs(t) :
                  PairQualifies(t, p[1], p[2], op.threshold)
                      => t[p[1]].name \o t[p[2]].name \in DOMAIN ret

\* a constant column in the table, threshold below zero, another pair reported
C6_Witness ==
    /\ IsCorrCall
    /\ op.threshold = Rat(-1, 2)
    /\ \E i \in NumericIdx(OpTable) :
          Len(Values(OpTable, i)) >= 2 /\ ZeroVariance(OpTable, i)
    /\ DOMAIN ret = {<<"x", "y">>}

\* the k-th smallest of a sequence of integers
Kth(vals, k) ==
    CHOOSE x \in {vals[i] : i \in 1..Len(vals)} :
        /\ Cardinality({i \in 1..Len(vals) : vals[i] < x}) < k
        /\ Cardinality({i \in 1..Len(vals) : vals[i] <= x}) >= k

\* four times the quartile q / 4 of a non-empty sequence, linear interpolation
Quartile4(vals, q) ==
    LET h == (Len(vals) - 1) * q
        lo == h \div 4
        r == h % 4
    IN  IF r = 0 THEN 4 * Kth(vals, lo + 1)
        ELSE (4 - r) * Kth(vals, lo + 1) + r * Kth(vals, lo + 2)

\* v < Q1 - t * IQR or v > Q3 + t * IQR, strictly, with t = tn / td
OutsideIqr(v, vals, thr) ==
    LET q1 == Quartile4(vals, 1)
        q3 == Quartile4(vals, 3)
    IN  \/ 4 * thr.den * v < thr.den * q1 - thr.num * (q3 - q1)
        \/ 4 * thr.den * v > thr.den * q3 + thr.num * (q3 - q1)

OutsideCount(vals, thr) ==
    Cardinality({k \in 1..Len(vals) : OutsideIqr(vals[k], vals, thr)})

\* C7: with the IQR method a numeric column is in the result iff one of its
\* non-null values lies strictly outside [Q1 - t*IQR, Q3 + t*IQR], and its
\* count is the number of such values; a column without one is absent.
C7_IqrRule ==
    IsOutlierCall("iqr") =>
        /\ exc = "None"
        /\ \A i \in NumericIdx(OpTable) :
              LET vals == Values(OpTable, i)
                  name == OpTable[i].name
              IN  /\ name \in DOMAIN ret <=> OutsideCount(vals, op.threshold) > 0
                  /\ name \in DOMAIN ret =>
                        ret[name].count = OutsideCount(vals, op.threshold)

\* a column with a null cell reported with one outlier, another column absent
C7_Witness ==
    /\ IsOutlierCall("iqr")
    /\ op.threshold = Rat(1, 2)
    /\ <<"x">> \in DOMAIN ret
    /\ ret[<<"x">>].count = 1
    /\ NullCount(OpTable[1].cells) = 1
    /\ <<"y">> \notin DOMAIN ret

\* the table is the single column [1, 2, 3, 100]
IsQtyTable(t) ==
    /\ Len(t) = 1
    /\ t[1].dtype = "int64"
    /\ t[1].cells = << <<1>>, <<2>>, <<3>>, <<100>> >>

IsQtyCall ==
    /\ IsOutlierCall("iqr")
    /\ op.threshold = Rat(3, 2)
    /\ IsQtyTable(OpTable)

\* C8 as stated: for the column [1, 2, 3, 100], IQR method, threshold 1.5, no
\* outlier is flagged: the column is absent from the result.
C8_NoOutlierFlagged == IsQtyCall => DOMAIN ret = {}

\* C8 amended: for the column [1, 2, 3, 100], IQR method, threshold 1.5, the
\* value 100 is flagged (Q1 = 1.75, Q3 = 27.25, upper bound 65.5): the column
\* is reported with count 1, percentage 25 and values [100].
C8_HundredFlagged ==
    IsQtyCall =>
        /\ DOMAIN ret = {OpTable[1].name}
        /\ ret[OpTable[1].name].count = 1
        /\ ret[OpTable[1].name].values = <<100>>
        /\ ret[OpTable[1].name].percentage = [nan |-> FALSE, num |-> 25, den |-> 1]

C8_Witness == IsQtyCall /\ <<"Qty">> \in DOMAIN ret

Min(a, b) == IF a < b THEN a ELSE b

\* C9: of every column identify_outliers reports, 'count' is the number of all
\* its outliers, 'values' the first min(count, 10) of them in row order, and
\* 'percentage' 100 * count over the number of non-null values.
C9_OutlierRecord ==
    (op.name = "identify_outliers" /\ Resolve(op.sheet_name) # None) =>
        \A i \in NumericIdx(OpTable) :
            LET name == OpTable[i].name
                cells == OpTable[i].cells
                rows == {r \in 1..Len(cells) : cells[r] # Null}
                outs == ColOutliers(Values(OpTable, i), op.method, op.threshold)
            IN  name \in DOMAIN ret =>
                  /\ ret[name].count = Len(outs)
                  /\ Len(ret[name].values) = Min(Len(outs), 10)
                  /\ \A k \in 1..Len(ret[name].values) : ret[name].values[k] = outs[k]
                  /\ ~ret[name].percentage.nan
                  /\ ret[name].percentage.num * Cardinality(rows)
                       = 100 * Len(outs) * ret[name].percentage.den

\* more than ten outliers in a column with a null cell: the list is capped
C9_Witness ==
    /\ op.name = "identify_outliers"
    /\ <<"v">> \in DOMAIN ret
    /\ ret[<<"v">>].count = 12
    /\ Len(ret[<<"v">>].values) = 10
    /\ NullCount(OpTable[1].cells) = 1

\* C10: find_correlations on a table with at least two numeric columns reports
\* exactly the pairs i < j of numeric columns whose coefficient is defined and
\* at least the threshold in absolute value, each under its own key
\* "colA - colB" with its own coefficient.
C10_ExactlyThePairs ==
    (IsCorrCall /\ Cardinality(NumericIdx(OpTable)) >= 2) =>
        LET t == OpTable
            hits == {p \in NumericPairs(t) : PairQualifies(t, p[1], p[2], op.threshold)}
        IN  /\ DOMAIN ret = {t[p[1]].name \o t[p[2]].name : p \in hits}
            /\ Cardinality(DOMAIN ret) = Cardinality(hits)
            /\ \A p \in hits :
                  LET st == PairStats(t, p[1], p[2])
                      c == ret[t[p[1]].name \o t[p[2]].name]
                  IN  /\ c.sign = Sign(st.cov)
                      /\ st.cov * st.cov * c.sq.den = c.sq.num * st.vx * st.vy

----------------------------------------------------------------------------
(* analyze_categorical_data: the order of the top categories *)

IsCategoricalCall ==
    /\ op.name = "analyze_categorical_data"
    /\ exc = "None"
    /\ ret # Empty

DistinctSet(vals) == {vals[i] : i \in 1..Len(vals)}

FirstAt(vals, x) == CHOOSE i \in 1..Len(vals) :
                        vals[i] = x /\ \A j \in 1..(i - 1) : vals[j] # x

\* x comes before y: it is more frequent, or as frequent and met first
ComesBefore(vals, x, y) ==
    \/ Count(vals, x) > Count(vals, y)
    \/ Count(vals, x) = Count(vals, y) /\ FirstAt(vals, x) < FirstAt(vals, y)

----------------------------------------------------------------------------
(* analyze_date_columns: which string columns are reported *)

IsDateCall ==
    /\ op.name = "analyze_date_columns"
    /\ exc = "None"

\* how many of the values read as a date
ParsedCount(vals) ==
    Cardinality({k \in 1..Len(vals) : ParseDate(vals[k]) # None})

\* C12: analyze_date_columns reports a string column that has non-null values
\* if and only if at least 70% of its non-null values parse as dates; null
\* cells do not count against the ratio.
C12_ShareOfNonNull ==
    IsDateCall =>
        \A i \in StringIdx(OpTable) :
            LET vals == Values(OpTable, i)
            IN  Len(vals) > 0 =>
                  (OpTable[i].name \in DOMAIN ret
                      <=> 10 * ParsedCount(vals) >= 7 * Len(vals))

\* the columns a pass has a record for, under the key "default"
ReportedBy(kind) ==
    IF Has(insights, kind, "default") THEN DOMAIN insights[kind]["default"] ELSE {}

\* C13: column classification is exclusive: no column reported by
\* analyze_date_columns is a numeric (integer / float) column, and none is also
\* reported by analyze_categorical_data.
C13_ExclusiveClasses ==
    /\ IsDateCall =>
          \A i \in NumericIdx(OpTable) : OpTable[i].name \notin DOMAIN ret
    /\ ReportedBy("date_analysis") \cap ReportedBy("categorical_analysis") = {}

----------------------------------------------------------------------------
(* analyze_date_columns: the record of a reported column *)

\* the Timestamps of a converted column
DateSet(conv) == {conv[k][1] : k \in {j \in 1..Len(conv) : conv[j] # None}}

Earliest(D) == CHOOSE d \in D : \A e \in D : d <= e
Latest(D) == CHOOSE d \in D : \A e \in D : d >= e

\* C14: for every column analyze_date_columns reports, min_date and max_date
\* are both null exactly when the column has no non-null date; range_days is
\* the number of whole days between the earliest and the latest date when there
\* is one and null otherwise; missing_percentage is the number of cells without
\* a date over the number of rows, times 100.
C14_DateRecord ==
    IsDateCall =>
        \A i \in 1..Len(OpTable) :
            OpTable[i].name \in DOMAIN ret =>
                LET rec == ret[OpTable[i].name]
                    conv == DateCol(OpTable[i])
                    D == DateSet(conv)
                    n == Len(conv)
                    nulls == Cardinality({k \in 1..n : conv[k] = None})
                IN  /\ rec.min_date = None <=> D = {}
                    /\ rec.max_date = None <=> D = {}
                    /\ D # {} =>
                          /\ rec.min_date = Some(CivilFromDays(DayOf(Earliest(D))))
                          /\ rec.max_date = Some(CivilFromDays(DayOf(Latest(D))))
                          /\ rec.range_days # None
                          /\ rec.range_days[1] * DayHours <= Latest(D) - Earliest(D)
                          /\ Latest(D) - Earliest(D) < (rec.range_days[1] + 1) * DayHours
                    /\ D = {} => rec.range_days = None
                    /\ rec.missing_values = nulls
                    /\ IF n > 0 THEN rec.missing_percentage = Rat(100 * nulls, n)
                       ELSE rec.missing_percentage.nan

\* a reported column with one cell that holds no date and dates 60 days apart
C14_Witness ==
    /\ IsDateCall
    /\ \E c \in DOMAIN ret :
          /\ ret[c].range_days = Some(60)
          /\ ret[c].missing_values = 1
          /\ ret[c].min_date = Some(<<2023, 12, 31>>)
          /\ ret[c].max_date = Some(<<2024, 2, 29>>)

----------------------------------------------------------------------------
(* generate_summary_statistics: the order of the quartiles *)

IsSummaryCall ==
    /\ op.name = "generate_summary_statistics"
    /\ exc = "None"
    /\ ret # Empty

QuartilesOrdered(st) ==
    /\ RLe(st.min, st.q25)
    /\ RLe(st.q25, st.q50)
    /\ RLe(st.q50, st.q75)
    /\ RLe(st.q75, st.max)

\* C19: for every numeric column generate_summary_statistics selects, a column
\* with a single non-null value or with none included, the figures satisfy
\* min <= 25% <= 50% <= 75% <= max.
C19_QuartileOrder ==
    IsSummaryCall =>
        \A c \in DOMAIN ret.statistics : QuartilesOrdered(ret.statistics[c])

\* C19, amended: the order holds for every selected column with at least one
\* non-null value, the five figures being equal when there is just one; for a
\* column without a non-null value the count is 0 and the five figures are NaN.
C19_QuartileOrderOfValues ==
    IsSummaryCall =>
        \A c \in DOMAIN ret.statistics :
            LET st == ret.statistics[c]
            IN  /\ st.count >= 1 => QuartilesOrdered(st)
                /\ st.count = 1 =>
                      /\ st.min = st.max
                      /\ st.q25 = st.min /\ st.q50 = st.min /\ st.q75 = st.min
                /\ st.count = 0 =>
                      /\ st.min.nan /\ st.q25.nan /\ st.q50.nan
                      /\ st.q75.nan /\ st.max.nan

\* a summary with a column without values, a column of one value and a column
\* whose quartiles all differ
C19_Witness ==
    /\ IsSummaryCall
    /\ \E c, d, e \in DOMAIN ret.statistics :
          /\ ret.statistics[c].count = 0
          /\ ret.statistics[d].count = 1
          /\ RLt(ret.statistics[e].min, ret.statistics[e].q25)
          /\ RLt(ret.statistics[e].q25, ret.statistics[e].q50)
          /\ RLt(ret.statistics[e].q50, ret.statistics[e].q75)
          /\ RLt(ret.statistics[e].q75, ret.statistics[e].max)

----------------------------------------------------------------------------
(* The engine: repeated calls, frame conditions, loading, unknown sheets *)

AnalysisNames == PassNames \ {"get_basic_info"}

\* the kind a pass stores its record under
KindOf(name) ==
    CASE name = "generate_summary_statistics" -> "summary_statistics"
      [] name = "find_correlations" -> "correlations"
      [] name = "identify_outliers" -> "outliers"
      [] name = "analyze_categorical_data" -> "categorical_analysis"
      [] name = "analyze_date_columns" -> "date_analysis"
      [] OTHER -> "basic_info"

\* the step is a call of a pass, of the report or of the charts
CallStep == calls' = calls + 1

\* C15: idempotence: a pass invoked again with the same arguments, nothing
\* being loaded in between, returns what it returned the first time, and the
\* insights after the second invocation are the insights after the first.
C15_Idempotent ==
    [][(PassStep /\ op' = op)
          => (ret' = ret /\ exc' = exc /\ insights' = insights)]_vars

\* the categorical pass was repeated on a table in which it sorts a tie
C15_Witness ==
    /\ again
    /\ op.name = "analyze_categorical_data"
    /\ ret # Empty
    /\ ties # "unset"
    /\ Has(insights, "categorical_analysis", SheetKey(op.sheet_name))

\* C16: tables are read-only outside loading: no call of a pass, of
\* get_basic_info, of generate_insights_report or of visualize_data changes
\* the sheets, the default table or a cell of a table, and the last two leave
\* the insights as they were.
C16_TablesReadOnly ==
    [][CallStep =>
          /\ sheets' = sheets
          /\ data' = data
          /\ op'.name \in {"generate_insights_report", "visualize_data"}
                => insights' = insights]_vars

\* charts were saved of a loaded table that holds a null, insights being there
C16_Witness ==
    /\ op.name = "visualize_data"
    /\ exc = "None"
    /\ ret # <<>>
    /\ insights # Empty
    /\ \E i \in 1..Len(OpTable) : NullCount(OpTable[i].cells) > 0

\* C17: load_excel never raises; it returns False when no path is known or
\* reading the file or one of its sheets fails, and True otherwise; after True
\* the default table is the first sheet of the file just loaded; after False
\* the default table and every sheet name loaded before are still there, and
\* a pass called next on a default table runs and raises nothing.
C17_LoadExcel ==
    [][/\ loads' = loads + 1 =>
             /\ exc' = "None"
             /\ ret' \in BOOLEAN
             /\ ret' = FALSE <=> (~Truthy(file_path') \/ caught' # "None")
             /\ (~Truthy(op'.path) /\ ~Truthy(file_path)) => ret' = FALSE
             /\ (Truthy(file_path') /\ file_path'[1] \notin DOMAIN Files)
                   => ret' = FALSE
             /\ ret' = TRUE =>
                   /\ file_path'[1] \in DOMAIN Files
                   /\ data' = Some(Files[file_path'[1]][1].table)
             /\ ret' = FALSE =>
                   /\ data' = data
                   /\ \A i \in 1..Len(sheets) : HasSheet(sheets', sheets[i].name)
       /\ (PassStep /\ op.name = "load_excel" /\ ret = FALSE /\ data # None
             /\ op'.name \in AnalysisNames) =>
             /\ exc' = "None"
             /\ Has(ran', KindOf(op'.name), SheetKey(op'.sheet_name))]_vars

\* the second load failed while reading a sheet, the default table staying
C17_Witness ==
    /\ op.name = "load_excel"
    /\ loads = 2
    /\ ret = FALSE
    /\ caught = "Exception"
    /\ data # None

\* C20: a pass called with a non-empty sheet name that is no key of the sheets,
\* a default table being there, does not fail: it stores its result under the
\* name given and leaves the record under "default" as it was.
C20_UnknownSheetFallback ==
    [][(PassStep /\ op'.name \in AnalysisNames /\ Truthy(op'.sheet_name)
          /\ ~HasSheet(sheets, op'.sheet_name[1]) /\ data # None) =>
          LET kind == KindOf(op'.name)
              key == op'.sheet_name[1]
          IN  /\ exc' = "None"
              /\ Has(insights', kind, key)
              /\ insights'[kind][key] = ret'
              /\ Has(insights', kind, "default") <=> Has(insights, kind, "default")
              /\ Has(insights, kind, "default") =>
                    insights'[kind]["default"] = insights[kind]["default"]]_vars

----------------------------------------------------------------------------
(* Concurrent passes *)

\* C18: when two passes that store under different (kind, sheet key) entries
\* run concurrently on one engine, both records are in the insights once both
\* have finished, whatever the interleaving of their steps, two passes of one
\* kind on two sheets with no record of that kind yet included.
C18_NoLostUpdate ==
    (/\ \A i \in ThreadIds : threads[i].pc = "done" /\ threads[i].stores
     /\ <<threads[1].kind, threads[1].key>> # <<threads[2].kind, threads[2].key>>)
        => \A i \in ThreadIds :
               /\ Has(insights, threads[i].kind, threads[i].key)
               /\ insights[threads[i].kind][threads[i].key] = threads[i].rec

----------------------------------------------------------------------------
(* The default table and the sheet collection across loads *)

\* the default table is one of the tables of the sheet collection
DefaultInSheets ==
    data = None \/ \E i \in 1..Len(sheets) : sheets[i].table = data[1]

\* a call of load_excel that returns False
FailedLoad == loads' = loads + 1 /\ ret' = FALSE

\* C21: after any sequence of load_excel calls, successful or failed (a failure
\* may come after some sheets of the file were read), the default table is None
\* or is the table the sheet collection holds under some sheet name, and the
\* sheet collection holds only sheets of loads that completed: a failed load
\* leaves it as it was.
C21_DefaultTable ==
    [][DefaultInSheets' /\ (FailedLoad => sheets' = sheets)]_vars

====
